---- MODULE Spec2Model ----
(***************************************************************************)
(* Model of the memory-matching game engine of src/index.tsx (component    *)
(* App).  The React state of App is the state of the model; every browser  *)
(* task (a click handler, the interval callback, the mismatch timeout      *)
(* callback, a form event) is one action.  An action applies the handler's *)
(* state updates and then runs the component's effects, in declaration     *)
(* order, for as many renders as their dependencies keep changing, as      *)
(* React does before the next task is taken.                               *)
(*                                                                         *)
(* The deck and the clock are scaled down (a GRID_ROWS x GRID_COLS board,  *)
(* GAME_DURATION ticks); the source uses 5 x 4 and 180.  Time is not       *)
(* measured: the 1000 ms mismatch timeout may fire before or after any     *)
(* number of ticks and commands, timeouts among themselves fire in the     *)
(* order they were scheduled.                                              *)
(***************************************************************************)
EXTENDS Integers, Sequences, FiniteSets, Bags, TLC

\* ---- configuration (scaled down) and bounds -----------------------------
GRID_ROWS == 2
GRID_COLS == 2
GAME_DURATION == 2
NumImages == 10          \* IMAGE_PATHS.length
TopScores == 5           \* .slice(0, 5)
MaxMoves == 3            \* pair-checks per session explored
MaxSessions == 2         \* sessions explored (numbered from 0)

VARIABLES
  gameState,        \* 'start' | 'playing' | 'awaitingName' | 'won' | 'lost'
  cards,            \* sequence of [id, imageId, isFlipped, isMatched]
  flippedCards,     \* sequence of card indices (0-based), the spec's flippedUnmatched
  mismatchedCards,  \* sequence of card ids shown as mismatched
  moves,            \* the spec's moveCount
  isChecking,       \* the spec's resolving sub-state
  timeLeft,         \* the spec's timeRemaining
  playerName,       \* sequence of characters typed in the name input
  highScores,       \* in-memory ledger, sequence of [name, time, moves]
  shuffledCards,    \* the memoised deck (useMemo with no dependencies)
  timerOn,          \* an interval of the timer effect is installed
  timeouts,         \* queue of scheduled mismatch callbacks [first, second, session]
  storage,          \* localStorage['memoryGameHighScores'], serialised
  session,          \* number of handleResetGame calls so far (history)
  recorded,         \* bag of the entries the ledger has ranked so far (history)
  lastOp            \* the task that ran last (history)

vars == <<gameState, cards, flippedCards, mismatchedCards, moves, isChecking,
          timeLeft, playerName, highScores, shuffledCards, timerOn, timeouts,
          storage, session, recorded, lastOp>>

\* ---- helpers -------------------------------------------------------------
\* Array.prototype.map over a sequence
Map(s, F(_)) == [i \in DOMAIN s |-> F(s[i])]

\* cards[index] for a 0-based index
CardAt(cs, index) == cs[index + 1]

\* cards.every(card => card.isMatched)
EveryMatched(cs) == \A i \in DOMAIN cs : cs[i].isMatched

\* ---- deck generator (shuffledCards) -------------------------------------
requiredImagesCount == (GRID_ROWS * GRID_COLS) \div 2

\* IMAGE_PATHS.slice(0, requiredImagesCount).map((p, index) => ({imageId: index, ...}))
\* for a pool of `pool` images and a grid of rows x cols cells: slice keeps
\* what there is when the pool is shorter than the count asked for
CardPairsOf(pool, rows, cols) ==
  LET required == (rows * cols) \div 2
      n == IF required <= pool THEN required ELSE pool
  IN  0 .. (n - 1)

CardPairs == CardPairsOf(NumImages, GRID_ROWS, GRID_COLS)

\* [...cardPairs, ...cardPairs].sort(random): any arrangement of the doubled pool
ArrangementsOf(pairs) ==
  LET n == 2 * Cardinality(pairs)
  IN  {d \in [1 .. n -> pairs] :
         \A im \in pairs : Cardinality({j \in 1 .. n : d[j] = im}) = 2}

Arrangements == ArrangementsOf(CardPairs)

\* .map((card, index) => ({ ...card, id: index }))
MakeDeckIdFromOne(d) ==
  [i \in DOMAIN d |-> [id |-> i, imageId |-> d[i],
                       isFlipped |-> FALSE, isMatched |-> FALSE]]

MakeDeck(d) ==
  [i \in DOMAIN d |-> [id |-> i - 1, imageId |-> d[i],
                       isFlipped |-> FALSE, isMatched |-> FALSE]]

\* ---- player name ---------------------------------------------------------
\* the values typed into the name input that are explored
Names == {<<>>, <<" ">>, <<"A">>, <<" ", "A", " ">>}

RECURSIVE TrimStart(_)
TrimStart(s) ==
  IF s = <<>> THEN <<>>
  ELSE IF Head(s) = " " THEN TrimStart(Tail(s)) ELSE s

RECURSIVE TrimEnd(_)
TrimEnd(s) ==
  IF s = <<>> THEN <<>>
  ELSE IF s[Len(s)] = " " THEN TrimEnd(SubSeq(s, 1, Len(s) - 1)) ELSE s

\* String.prototype.trim
Trim(s) == TrimEnd(TrimStart(s))

\* ---- high-score ledger ---------------------------------------------------
\* the comparator of handleNameSubmit, as "a sorts strictly before b"
BeforeByTimeOnly(a, b) == a.time < b.time

Before(a, b) ==
  IF a.time # b.time THEN a.time < b.time ELSE a.moves < b.moves

\* insert e into the sorted sequence s after every entry that does not sort after it
RECURSIVE InsertSorted(_, _)
InsertSorted(s, e) ==
  IF s = <<>> THEN <<e>>
  ELSE IF Before(e, Head(s)) THEN <<e>> \o s
  ELSE <<Head(s)>> \o InsertSorted(Tail(s), e)

\* Array.prototype.sort (stable) with the comparator above
RECURSIVE SortScores(_)
SortScores(s) ==
  IF s = <<>> THEN <<>>
  ELSE InsertSorted(SortScores(SubSeq(s, 1, Len(s) - 1)), s[Len(s)])

\* [...highScores, newScore].sort(...).slice(0, 5)
UpdatedScores(hs, newScore) ==
  LET sorted == SortScores(Append(hs, newScore))
  IN  SubSeq(sorted, 1, IF Len(sorted) < TopScores THEN Len(sorted) ELSE TopScores)

\* JSON.stringify / JSON.parse of the ledger: a list of [name, time, moves] triples
Stringify(hs) == [i \in DOMAIN hs |-> <<hs[i].name, hs[i].time, hs[i].moves>>]
Parse(str) == [i \in DOMAIN str |-> [name |-> str[i][1], time |-> str[i][2], moves |-> str[i][3]]]

\* ---- rendering and effects ----------------------------------------------
\* The values one render of App sees, with the timers installed so far;
\* dirty names the array states that were set (a new reference) since the
\* previous render, sess is the session the render belongs to.
Snapshot ==
  [gameState |-> gameState, cards |-> cards, flippedCards |-> flippedCards,
   mismatchedCards |-> mismatchedCards, moves |-> moves, isChecking |-> isChecking,
   timeLeft |-> timeLeft, timerOn |-> timerOn, timeouts |-> timeouts,
   sess |-> session, dirty |-> {}]

\* timer effect, dependencies [gameState, timeLeft]: w is the render the effect
\* closes over, q the state with the updates queued so far
TimerEffectLateLoss(w, q) ==
  IF w.gameState # "playing" \/ w.timeLeft <= 0
  THEN IF w.timeLeft < 0 /\ w.gameState = "playing"
       THEN [q EXCEPT !.timerOn = FALSE, !.gameState = "lost"]
       ELSE [q EXCEPT !.timerOn = FALSE]
  ELSE [q EXCEPT !.timerOn = TRUE]

TimerEffectAnyPhase(w, q) ==
  IF w.timeLeft <= 0
  THEN IF w.gameState = "playing"
       THEN [q EXCEPT !.timerOn = FALSE, !.gameState = "lost"]
       ELSE [q EXCEPT !.timerOn = FALSE]
  ELSE [q EXCEPT !.timerOn = TRUE]

TimerEffect(w, q) ==
  IF w.gameState # "playing" \/ w.timeLeft <= 0
  THEN IF w.timeLeft <= 0 /\ w.gameState = "playing"
       THEN [q EXCEPT !.timerOn = FALSE, !.gameState = "lost"]
       ELSE [q EXCEPT !.timerOn = FALSE]
  ELSE [q EXCEPT !.timerOn = TRUE]

\* setMoves(prev => prev + 1)
CountMoveDropped(q) == q

CountMove(q) == [q EXCEPT !.moves = @ + 1]

\* the match branch of the pair-check effect
MatchBranchStillChecking(q, firstCard, secondCard) ==
  LET SetMatched(card) ==
        IF card.id = firstCard.id \/ card.id = secondCard.id
        THEN [card EXCEPT !.isMatched = TRUE] ELSE card
  IN  [q EXCEPT !.cards = Map(@, SetMatched),
                !.flippedCards = <<>>,
                !.dirty = @ \cup {"cards", "flippedCards"}]

MatchBranch(q, firstCard, secondCard) ==
  LET SetMatched(card) ==
        IF card.id = firstCard.id \/ card.id = secondCard.id
        THEN [card EXCEPT !.isMatched = TRUE] ELSE card
  IN  [q EXCEPT !.cards = Map(@, SetMatched),
                !.flippedCards = <<>>,
                !.isChecking = FALSE,
                !.dirty = @ \cup {"cards", "flippedCards"}]

\* the mismatch branch of the pair-check effect: the callback is scheduled with
\* the two cards it closes over; sess records the session that scheduled it
MismatchBranch(q, firstCard, secondCard, sess) ==
  [q EXCEPT !.mismatchedCards = <<firstCard.id, secondCard.id>>,
            !.timeouts = Append(@, [first |-> firstCard.id,
                                    second |-> secondCard.id,
                                    sess |-> sess])]

\* pair-check effect, dependencies [flippedCards, cards]
PairCheckEffect(w, q) ==
  IF Len(w.flippedCards) # 2 THEN q
  ELSE
    LET firstCard == CardAt(w.cards, w.flippedCards[1])
        secondCard == CardAt(w.cards, w.flippedCards[2])
        q1 == CountMove([q EXCEPT !.isChecking = TRUE])
    IN  IF firstCard.imageId = secondCard.imageId
        THEN MatchBranch(q1, firstCard, secondCard)
        ELSE MismatchBranch(q1, firstCard, secondCard, w.sess)

\* win-detection effect, dependencies [cards]
WinEffectSomeMatched(w, q) ==
  IF Len(w.cards) > 0 /\ \E i \in DOMAIN w.cards : w.cards[i].isMatched
  THEN [q EXCEPT !.gameState = "awaitingName"]
  ELSE q

WinEffect(w, q) ==
  IF Len(w.cards) > 0 /\ EveryMatched(w.cards)
  THEN [q EXCEPT !.gameState = "awaitingName"]
  ELSE q

\* One commit: the effects whose dependencies changed since the render prev run
\* in declaration order on the render w; their updates are batched.
RunEffects(prev, w) ==
  LET q0 == [w EXCEPT !.dirty = {}]
      q1 == IF w.gameState # prev.gameState \/ w.timeLeft # prev.timeLeft
            THEN TimerEffect(w, q0) ELSE q0
      q2 == IF w.dirty \cap {"flippedCards", "cards"} # {}
            THEN PairCheckEffect(w, q1) ELSE q1
      q3 == IF "cards" \in w.dirty THEN WinEffect(w, q2) ELSE q2
  IN  q3

\* a render is needed when a state changed or an array state was set
NeedsRender(prev, w) ==
  \/ w.dirty # {}
  \/ [w EXCEPT !.dirty = {}, !.timerOn = FALSE, !.timeouts = <<>>]
       # [prev EXCEPT !.dirty = {}, !.timerOn = FALSE, !.timeouts = <<>>]

\* render and run effects until no update is pending (q names the commit's
\* result, which the next render reads more than once)
RECURSIVE Settle(_, _)
Settle(prev, w) ==
  IF NeedsRender(prev, w)
  THEN CHOOSE r \in {Settle(w, q) : q \in {RunEffects(prev, w)}} : TRUE
  ELSE w

\* the settled state becomes the next state
Commit(r) ==
  \E settled \in {r} :
    /\ gameState' = settled.gameState
    /\ cards' = settled.cards
    /\ flippedCards' = settled.flippedCards
    /\ mismatchedCards' = settled.mismatchedCards
    /\ moves' = settled.moves
    /\ isChecking' = settled.isChecking
    /\ timeLeft' = settled.timeLeft
    /\ timerOn' = settled.timerOn
    /\ timeouts' = settled.timeouts

\* ---- handlers and callbacks: the state updates they queue -----------------
\* handleStartGame (playerName is set by the action)
StartGame(w, deck) ==
  [w EXCEPT !.cards = deck,
            !.gameState = "playing",
            !.moves = 0,
            !.flippedCards = <<>>,
            !.timeLeft = GAME_DURATION,
            !.dirty = {"cards", "flippedCards"}]

\* the early return of handleCardClick
ClickIgnoredUnlessFlipped(w, index) ==
  \/ w.isChecking
  \/ Len(w.flippedCards) = 2
  \/ CardAt(w.cards, index).isMatched

ClickIgnoredUnlessMatched(w, index) ==
  \/ w.isChecking
  \/ Len(w.flippedCards) = 2
  \/ CardAt(w.cards, index).isFlipped

ClickIgnored(w, index) ==
  \/ w.isChecking
  \/ Len(w.flippedCards) = 2
  \/ CardAt(w.cards, index).isFlipped
  \/ CardAt(w.cards, index).isMatched

\* handleCardClick
CardClick(w, index) ==
  IF ClickIgnored(w, index) THEN w
  ELSE [w EXCEPT !.cards = [i \in DOMAIN @ |->
                              IF i - 1 = index THEN [@[i] EXCEPT !.isFlipped = TRUE]
                              ELSE @[i]],
                 !.flippedCards = Append(@, index),
                 !.dirty = {"cards", "flippedCards"}]

\* the setInterval callback of the timer effect
IntervalCallback(w) == [w EXCEPT !.timeLeft = @ - 1]

\* the setTimeout callback of the pair-check effect, scheduled as t
TimeoutCallbackStillChecking(w, t) ==
  LET Unflip(card) ==
        IF card.id = t.first \/ card.id = t.second
        THEN [card EXCEPT !.isFlipped = FALSE] ELSE card
  IN  [w EXCEPT !.cards = Map(@, Unflip),
                !.flippedCards = <<>>,
                !.mismatchedCards = <<>>,
                !.dirty = {"cards", "flippedCards"}]

TimeoutCallback(w, t) ==
  LET Unflip(card) ==
        IF card.id = t.first \/ card.id = t.second
        THEN [card EXCEPT !.isFlipped = FALSE] ELSE card
  IN  [w EXCEPT !.cards = Map(@, Unflip),
                !.flippedCards = <<>>,
                !.mismatchedCards = <<>>,
                !.isChecking = FALSE,
                !.dirty = {"cards", "flippedCards"}]

\* handleResetGame
ResetGameStillChecking(w) ==
  [w EXCEPT !.gameState = "start",
            !.cards = <<>>,
            !.flippedCards = <<>>,
            !.moves = 0,
            !.timeLeft = GAME_DURATION,
            !.dirty = {"cards", "flippedCards"}]

ResetGame(w) ==
  [w EXCEPT !.gameState = "start",
            !.cards = <<>>,
            !.flippedCards = <<>>,
            !.moves = 0,
            !.isChecking = FALSE,
            !.timeLeft = GAME_DURATION,
            !.dirty = {"cards", "flippedCards"}]

\* const newScore = { name: playerName.trim(), time: GAME_DURATION - timeLeft, moves }
NewScoreTimeLeft(name, tl, mv) ==
  [name |-> Trim(name), time |-> tl, moves |-> mv]

NewScore(name, tl, mv) ==
  [name |-> Trim(name), time |-> GAME_DURATION - tl, moves |-> mv]

\* the ledger part of handleNameSubmit: the ranking, the write and setHighScores
RecordScore(newScore) ==
  LET updatedScores == UpdatedScores(highScores, newScore)
  IN  /\ storage' = Stringify(updatedScores)
      /\ highScores' = updatedScores
      /\ recorded' = recorded (+) SetToBag({newScore})

\* ---- initial state: App mounted, nothing stored ---------------------------
Init ==
  /\ gameState = "start"
  /\ cards = <<>>
  /\ flippedCards = <<>>
  /\ mismatchedCards = <<>>
  /\ moves = 0
  /\ isChecking = FALSE
  /\ timeLeft = GAME_DURATION
  /\ playerName = <<>>
  /\ storage = <<>>
  /\ highScores = Parse(storage)
  /\ shuffledCards \in {MakeDeck(d) : d \in Arrangements}
  /\ timerOn = FALSE
  /\ timeouts = <<>>
  /\ session = 0
  /\ recorded = EmptyBag
  /\ lastOp = [op |-> "mount", ok |-> TRUE]

\* ---- actions: one browser task each ---------------------------------------
\* click on "Comenzar Juego", rendered in 'start'
HandleStartGame ==
  /\ gameState = "start"
  /\ session < MaxSessions
  /\ Commit(Settle(Snapshot, StartGame(Snapshot, shuffledCards)))
  /\ playerName' = <<>>
  /\ lastOp' = [op |-> "start", ok |-> TRUE]
  /\ UNCHANGED <<highScores, shuffledCards, storage, session, recorded>>

\* click on a card of the board, rendered in 'playing'
HandleCardClickAnyPhase(index) ==
  /\ index \in 0 .. (Len(cards) - 1)
  /\ moves < MaxMoves
  /\ Commit(Settle(Snapshot, CardClick(Snapshot, index)))
  /\ lastOp' = [op |-> "click", ok |-> ~ClickIgnored(Snapshot, index)]
  /\ UNCHANGED <<playerName, highScores, shuffledCards, storage, session, recorded>>

HandleCardClick(index) ==
  /\ gameState = "playing"
  /\ index \in 0 .. (Len(cards) - 1)
  /\ moves < MaxMoves
  /\ Commit(Settle(Snapshot, CardClick(Snapshot, index)))
  /\ lastOp' = [op |-> "click", ok |-> ~ClickIgnored(Snapshot, index)]
  /\ UNCHANGED <<playerName, highScores, shuffledCards, storage, session, recorded>>

\* the interval of the timer effect fires
Tick ==
  /\ timerOn
  /\ Commit(Settle(Snapshot, IntervalCallback(Snapshot)))
  /\ lastOp' = [op |-> "tick", ok |-> TRUE]
  /\ UNCHANGED <<playerName, highScores, shuffledCards, storage, session, recorded>>

\* the oldest scheduled mismatch timeout fires
MismatchTimeout ==
  /\ timeouts # <<>>
  /\ Commit(Settle(Snapshot,
                   TimeoutCallback([Snapshot EXCEPT !.timeouts = Tail(@)], Head(timeouts))))
  /\ lastOp' = [op |-> "timeout", ok |-> TRUE]
  /\ UNCHANGED <<playerName, highScores, shuffledCards, storage, session, recorded>>

\* click on "Jugar de Nuevo", rendered in the 'won' and 'lost' modals
HandleResetGame ==
  /\ gameState \in {"won", "lost"}
  /\ Commit(Settle(Snapshot, ResetGame(Snapshot)))
  /\ session' = session + 1
  /\ lastOp' = [op |-> "reset", ok |-> TRUE]
  /\ UNCHANGED <<playerName, highScores, shuffledCards, storage, recorded>>

\* typing in the name input, rendered in 'awaitingName'
ChangePlayerName(name) ==
  /\ gameState = "awaitingName"
  /\ name \in Names
  /\ name # playerName
  /\ playerName' = name
  /\ lastOp' = [op |-> "name", ok |-> TRUE]
  /\ UNCHANGED <<gameState, cards, flippedCards, mismatchedCards, moves, isChecking,
                 timeLeft, highScores, shuffledCards, timerOn, timeouts, storage, session,
                 recorded>>

\* submit of the name form, rendered in 'awaitingName'; stored tells whether
\* localStorage.setItem returned or threw
HandleNameSubmit(stored) ==
  /\ gameState = "awaitingName"
  /\ IF Trim(playerName) = <<>>
     THEN /\ lastOp' = [op |-> "submit", ok |-> FALSE]
          /\ UNCHANGED <<gameState, cards, flippedCards, mismatchedCards, moves,
                         isChecking, timeLeft, timerOn, timeouts, highScores, storage,
                         recorded>>
     ELSE     /\ IF stored
                 THEN RecordScore(NewScore(playerName, timeLeft, moves))
                 ELSE UNCHANGED <<storage, highScores, recorded>>
              /\ Commit(Settle(Snapshot, [Snapshot EXCEPT !.gameState = "won"]))
              /\ lastOp' = [op |-> "submit", ok |-> TRUE]
  /\ UNCHANGED <<playerName, shuffledCards, session>>

Next ==
  \/ HandleStartGame
  \/ \E index \in 0 .. (GRID_ROWS * GRID_COLS - 1) : HandleCardClick(index)
  \/ Tick
  \/ MismatchTimeout
  \/ HandleResetGame
  \/ \E name \in Names : ChangePlayerName(name)
  \/ \E stored \in BOOLEAN : HandleNameSubmit(stored)

Spec == Init /\ [][Next]_vars

\* ---- types ------------------------------------------------------------------
TypeOK ==
  /\ gameState \in {"start", "playing", "awaitingName", "won", "lost"}
  /\ moves \in 0 .. MaxMoves
  /\ timeLeft \in 0 .. GAME_DURATION
  /\ isChecking \in BOOLEAN
  /\ timerOn \in BOOLEAN
  /\ session \in 0 .. MaxSessions
  /\ Len(highScores) <= TopScores

\* ---- vocabulary of the claims ---------------------------------------------
\* the step just taken ran the given task
Ran(op) == lastOp'.op = op

\* the step is a flipCard the engine accepted / ignored
AcceptedFlip == Ran("click") /\ lastOp'.ok
IgnoredFlip == Ran("click") /\ ~lastOp'.ok

\* the step is the mismatch callback of a session that reset() has ended
StaleCallback == Ran("timeout") /\ timeouts # <<>> /\ Head(timeouts).sess # session

\* the step is the mismatch callback of the current session
OwnCallback == Ran("timeout") /\ timeouts # <<>> /\ Head(timeouts).sess = session

\* the step flips the second card of a pair: a pair-check completes
PairCheckStep == AcceptedFlip /\ Len(flippedCards) = 1

\* ids of the cards that are face-up and not matched
FaceUpUnmatched(cs) == {cs[i].id : i \in {j \in DOMAIN cs : cs[j].isFlipped /\ ~cs[j].isMatched}}

\* ---- C1 ---------------------------------------------------------------------
\* C1: a mismatch callback scheduled in a session that reset() has ended is a
\* no-op when it fires: cards, flippedCards and isChecking keep their values.
C1_StaleCallbackIsNoOp ==
  [][StaleCallback =>
       /\ cards' = cards
       /\ flippedCards' = flippedCards
       /\ isChecking' = isChecking]_vars

\* ---- C2 ---------------------------------------------------------------------
\* C2: the phase changes only start->playing (start), playing->awaitingName,
\* playing->lost (tick), awaitingName->won (submit) and any->start (reset); in
\* particular won and lost are left only by reset.
C2_PhaseTransitions ==
  [][gameState' # gameState =>
       \/ gameState = "start" /\ gameState' = "playing" /\ Ran("start")
       \/ gameState = "playing" /\ gameState' = "awaitingName"
       \/ gameState = "playing" /\ gameState' = "lost" /\ Ran("tick")
       \/ gameState = "awaitingName" /\ gameState' = "won" /\ Ran("submit")
       \/ gameState' = "start" /\ Ran("reset")]_vars

\* ---- C3 ---------------------------------------------------------------------
\* C3: flippedCards never holds more than 2 cards nor a matched card, and an
\* accepted flipCard never flips a card that is matched.
C3_FlippedUnmatched ==
  /\ [](/\ Len(flippedCards) <= 2
        /\ \A k \in DOMAIN flippedCards :
             /\ flippedCards[k] \in 0 .. (Len(cards) - 1)
             /\ ~CardAt(cards, flippedCards[k]).isMatched)
  /\ [][AcceptedFlip =>
          /\ Len(flippedCards) < 2
          /\ Len(cards') = Len(cards)
          /\ \A i \in DOMAIN cards :
               cards[i].isMatched => cards'[i] = cards[i]]_vars

\* a flipCard on a matched card was just ignored: no unmatched card is face-up,
\* nothing is resolving, so only the matched state of the target can have blocked it
C3_Witness ==
  /\ gameState = "playing"
  /\ lastOp = [op |-> "click", ok |-> FALSE]
  /\ ~isChecking
  /\ flippedCards = <<>>
  /\ FaceUpUnmatched(cards) = {}
  /\ \E i \in DOMAIN cards : cards[i].isMatched

\* ---- C4 ---------------------------------------------------------------------
\* C4: moves grows by exactly 1 in a step that completes a pair-check and is
\* unchanged by every other flipCard, by a tick, by a mismatch callback and by
\* the name form.
C4_MoveCount ==
  [][IF PairCheckStep THEN moves' = moves + 1
     ELSE (Ran("click") \/ Ran("tick") \/ Ran("timeout") \/ Ran("name") \/ Ran("submit"))
            => moves' = moves]_vars

\* a second pair-check completed, this one a mismatch
C4_Witness ==
  /\ lastOp = [op |-> "click", ok |-> TRUE]
  /\ moves = 2
  /\ Len(flippedCards) = 2

\* ---- C5 ---------------------------------------------------------------------
\* C5: timeLeft never goes below 0; the phase is lost only with timeLeft = 0 and
\* playing only with timeLeft > 0; the phase becomes lost exactly in the tick that
\* brings timeLeft to 0, whether or not a mismatch is resolving; and once lost,
\* no tick runs.
C5_LossAtZero ==
  /\ [](/\ timeLeft >= 0
        /\ gameState = "playing" => timeLeft > 0
        /\ gameState = "lost" => timeLeft = 0 /\ ~timerOn)
  /\ [][/\ (Ran("tick") /\ timeLeft' = 0) => gameState' = "lost"
        /\ (gameState' = "lost" /\ gameState # "lost")
             => Ran("tick") /\ gameState = "playing" /\ timeLeft' = 0
        /\ gameState = "lost" => ~Ran("tick")]_vars

\* the timer ran out while a mismatch was still resolving
C5_Witness ==
  /\ gameState = "lost"
  /\ lastOp.op = "tick"
  /\ isChecking
  /\ Len(flippedCards) = 2
  /\ timeouts # <<>>

OwnCallbackPending == \E k \in DOMAIN timeouts : timeouts[k].sess = session

\* the step flips a second card whose image differs from the first one's
MismatchStep ==
  /\ PairCheckStep
  /\ \E i \in DOMAIN cards :
       /\ cards'[i].isFlipped /\ ~cards[i].isFlipped
       /\ cards[i].imageId # CardAt(cards, flippedCards[1]).imageId

\* C7 (as claimed): a mismatch leaves both cards face-up, flippedCards of length
\* 2 and the phase playing; until the session's callback runs every flipCard is
\* ignored; the callback turns both cards face-down, empties flippedCards and
\* ends the resolving sub-state.
C7_MismatchResolution ==
  [][/\ MismatchStep =>
          /\ Len(flippedCards') = 2
          /\ \A k \in 1 .. 2 : CardAt(cards', flippedCards'[k]).isFlipped
          /\ gameState' = "playing"
          /\ isChecking'
          /\ OwnCallbackPending'
     /\ (OwnCallbackPending /\ Ran("click")) => IgnoredFlip
     /\ OwnCallback =>
          /\ \A i \in DOMAIN cards' :
               cards'[i].id \in {Head(timeouts).first, Head(timeouts).second}
                 => ~cards'[i].isFlipped
          /\ flippedCards' = <<>>
          /\ ~isChecking']_vars

\* ---- C8 ---------------------------------------------------------------------
\* cards.length > 0 && cards.every(card => card.isMatched)
AllMatched(cs) == Len(cs) > 0 /\ EveryMatched(cs)

MatchStep ==
  /\ PairCheckStep
  /\ \E i \in DOMAIN cards :
       /\ cards'[i].isFlipped /\ ~cards[i].isFlipped
       /\ cards[i].imageId = CardAt(cards, flippedCards[1]).imageId

\* C9: a match sets isMatched on both cards and empties flippedCards in the same
\* step, with no resolving sub-state and no callback scheduled; a matched card
\* stays matched in every step but reset.
C9_MatchIsImmediateAndPermanent ==
  [][/\ MatchStep =>
          /\ \A i \in DOMAIN cards :
               (i - 1 = flippedCards[1] \/ (cards'[i].isFlipped /\ ~cards[i].isFlipped))
                 => cards'[i].isMatched
          /\ flippedCards' = <<>>
          /\ ~isChecking'
          /\ timeouts' = timeouts
     /\ ~Ran("reset") =>
          \A i \in DOMAIN cards :
            cards[i].isMatched => i \in DOMAIN cards' /\ cards'[i].isMatched]_vars

\* a pair was just matched and the game goes on
C9_Witness ==
  /\ gameState = "playing"
  /\ lastOp = [op |-> "click", ok |-> TRUE]
  /\ flippedCards = <<>>
  /\ ~isChecking
  /\ Cardinality({i \in DOMAIN cards : cards[i].isMatched}) = 2

\* ---- C10 --------------------------------------------------------------------
\* C10 (as claimed): a submit with a name that is not blank puts the entry
\* (name.trim(), GAME_DURATION - timeLeft, moves) in the ledger and sets the
\* phase to won; timeLeft and moves do not change while the name is awaited.
C10_SubmitRecordsEntry ==
  [][/\ (gameState = "awaitingName" /\ Ran("submit") /\ Trim(playerName) # <<>>) =>
          /\ highScores' = UpdatedScores(highScores,
                                         [name |-> Trim(playerName),
                                          time |-> GAME_DURATION - timeLeft,
                                          moves |-> moves])
          /\ gameState' = "won"
     /\ (gameState = "awaitingName" /\ gameState' = "awaitingName") =>
          timeLeft' = timeLeft /\ moves' = moves]_vars

\* ---- the ledger on its own: record(entry) from an empty ledger ------------
MaxRecords == 6          \* record calls explored

\* the results recorded: two names, so that equal results of different players occur
LedgerEntries ==
  {[name |-> n, time |-> t, moves |-> m] :
     n \in {<<"A">>, <<"B">>}, t \in 0 .. 1, m \in 2 .. 3}

InitLedger == Init

Record ==
  \E newScore \in LedgerEntries :
    /\ BagCardinality(recorded) < MaxRecords
    /\ RecordScore(newScore)
    /\ lastOp' = [op |-> "record", ok |-> TRUE]
    /\ UNCHANGED <<gameState, cards, flippedCards, mismatchedCards, moves, isChecking,
                   timeLeft, playerName, shuffledCards, timerOn, timeouts, session>>

SpecLedger == InitLedger /\ [][Record]_vars

\* ---- C11 --------------------------------------------------------------------
\* the (time, moves) key of an entry, and "key a is not after key b"
Key(e) == <<e.time, e.moves>>
KeyLeq(a, b) == a[1] < b[1] \/ (a[1] = b[1] /\ a[2] <= b[2])

\* the bag of the entries of a sequence
SeqToBag(s) == [e \in {s[i] : i \in DOMAIN s} |-> Cardinality({i \in DOMAIN s : s[i] = e})]

\* C11: after any sequence of record calls from an empty ledger the ledger is
\* sorted ascending by (time, moves), has at most 5 entries, all of them entries
\* that were recorded, as many as were recorded up to 5, and no recorded entry
\* left out ranks strictly before one that is in.
C11_LedgerKeepsBest ==
  LET in == SeqToBag(highScores)
      out == recorded (-) in
  IN  /\ \A i \in 1 .. (Len(highScores) - 1) : KeyLeq(Key(highScores[i]), Key(highScores[i + 1]))
      /\ Len(highScores) <= TopScores
      /\ in \sqsubseteq recorded
      /\ Len(highScores) =
           (IF BagCardinality(recorded) < TopScores THEN BagCardinality(recorded) ELSE TopScores)
      /\ \A o \in BagToSet(out) : \A i \in DOMAIN highScores :
           KeyLeq(Key(highScores[i]), Key(o))

\* six results were recorded and one that ranks after all five kept is left out
C11_Witness ==
  /\ BagCardinality(recorded) = MaxRecords
  /\ Len(highScores) = TopScores
  /\ \E o \in BagToSet(recorded (-) SeqToBag(highScores)) :
       \A i \in DOMAIN highScores : Key(highScores[i]) # Key(o)

\* ---- C12 --------------------------------------------------------------------
\* the entry an accepted submit hands to the ledger
SubmittedEntry == NewScore(playerName, timeLeft, moves)

\* the step is an accepted submit whose write to the store failed: the store
\* does not hold the new ranking
WriteFailed ==
  /\ Ran("submit") /\ lastOp'.ok
  /\ storage' = storage
  /\ storage # Stringify(UpdatedScores(highScores, SubmittedEntry))

\* C12 (as claimed): when the write to the store fails during submit, the phase
\* still becomes won and the in-memory ledger holds the new entry ranked in.
C12_WriteFailureKeepsLedger ==
  [][WriteFailed =>
       /\ gameState' = "won"
       /\ highScores' = UpdatedScores(highScores, SubmittedEntry)]_vars

\* ---- C13 --------------------------------------------------------------------
\* cards, flippedCards, moves, timeLeft and the phase, with the resolving flag
SessionUnchanged ==
  /\ cards' = cards
  /\ flippedCards' = flippedCards
  /\ moves' = moves
  /\ timeLeft' = timeLeft
  /\ gameState' = gameState
  /\ isChecking' = isChecking

\* indices of the cards the step turns face-up
TurnedUp == {i \in DOMAIN cards : i \in DOMAIN cards' /\ cards'[i].isFlipped /\ ~cards[i].isFlipped}

\* C13: a flipCard changes the session only by turning up one card that was
\* face-down and not matched, and only while fewer than 2 cards are in
\* flippedCards and nothing is resolving; so a flipCard on a flipped or matched
\* card, or with 2 cards in flippedCards, leaves the whole session unchanged.
C13_IgnoredFlipChangesNothing ==
  [][Ran("click") =>
       IF Len(flippedCards) = 2 \/ isChecking \/ TurnedUp = {}
       THEN SessionUnchanged
       ELSE \E i \in DOMAIN cards :
              /\ TurnedUp = {i}
              /\ ~cards[i].isMatched
              /\ i - 1 \notin {flippedCards[k] : k \in DOMAIN flippedCards}]_vars

\* a flipCard was just ignored while a mismatch is resolving
C13_Witness ==
  /\ gameState = "playing"
  /\ lastOp = [op |-> "click", ok |-> FALSE]
  /\ Len(flippedCards) = 2
  /\ isChecking

C15_ResetClearsSession ==
  [][Ran("reset") =>
       /\ gameState' = "start"
       /\ cards' = <<>>
       /\ flippedCards' = <<>>
       /\ moves' = 0
       /\ ~isChecking'
       /\ timeLeft' = GAME_DURATION
       /\ ~timerOn'
       /\ highScores' = highScores
       /\ storage' = storage]_vars

\* reset was issued from lost while a mismatch was resolving: its callback is
\* still scheduled
C15_Witness ==
  /\ lastOp.op = "reset"
  /\ gameState = "start"
  /\ timeouts # <<>>
  /\ timeLeft = GAME_DURATION

\* ---- C16 --------------------------------------------------------------------
\* a deck of rows x cols cards with ids 0..n-1 in order and every image of the
\* first pairsNeeded ones on exactly two cards
DeckOK(cs) ==
  /\ Len(cs) = GRID_ROWS * GRID_COLS
  /\ \A i \in DOMAIN cs : cs[i].id = i - 1
  /\ {cs[i].imageId : i \in DOMAIN cs} = 0 .. (requiredImagesCount - 1)
  /\ \A im \in 0 .. (requiredImagesCount - 1) :
       Cardinality({i \in DOMAIN cs : cs[i].imageId = im}) = 2

\* C16: from start until reset the deck is a full, properly paired deck, and it
\* never changes its ids or images; right after start every card is face-down
\* and unmatched, in the first session and in later ones.
C16_DeckWellFormed ==
  /\ [](gameState # "start" => DeckOK(cards))
  /\ [][Ran("start") =>
          \A i \in DOMAIN cards' : ~cards'[i].isFlipped /\ ~cards'[i].isMatched]_vars

\* a second session has just started while a callback of the first is scheduled
C16_Witness ==
  /\ lastOp.op = "start"
  /\ session = 1
  /\ timeouts # <<>>
  /\ DeckOK(cards)

\* ---- C17: deck construction for any pool and grid ---------------------------
MaxPool == 3             \* sizes of the image pool explored: 0 .. MaxPool
MaxDeckRows == 3         \* grids explored: 1 .. MaxDeckRows rows of GRID_COLS

\* the decks the useMemo of the first render can return for a configuration
ShuffledDecks(pool, rows, cols) ==
  {MakeDeck(d) : d \in ArrangementsOf(CardPairsOf(pool, rows, cols))}

\* the module is loaded with some image pool and some grid; nothing rendered yet
InitDeck ==
  /\ gameState = "start"
  /\ cards = <<>>
  /\ flippedCards = <<>>
  /\ mismatchedCards = <<>>
  /\ moves = 0
  /\ isChecking = FALSE
  /\ timeLeft = GAME_DURATION
  /\ playerName = <<>>
  /\ highScores = <<>>
  /\ shuffledCards = <<>>
  /\ timerOn = FALSE
  /\ timeouts = <<>>
  /\ storage = Stringify(<<>>)
  /\ session = 0
  /\ recorded = EmptyBag
  /\ \E pool \in 0 .. MaxPool, rows \in 1 .. MaxDeckRows :
       lastOp = [op |-> "load", ok |-> TRUE, pool |-> pool, rows |-> rows]

\* the first render: useMemo builds the deck; it has no failing path
MountDeck ==
  /\ lastOp.op = "load"
  /\ shuffledCards' \in ShuffledDecks(lastOp.pool, lastOp.rows, GRID_COLS)
  /\ lastOp' = [lastOp EXCEPT !.op = "mount"]
  /\ UNCHANGED <<gameState, cards, flippedCards, mismatchedCards, moves,
                 isChecking, timeLeft, playerName, highScores, timerOn,
                 timeouts, storage, session, recorded>>

\* the start button of the screen that the first render shows
StartWithDeck ==
  /\ lastOp.op = "mount"
  /\ HandleStartGame

NextDeck == MountDeck \/ StartWithDeck

SpecDeck == InitDeck /\ [][NextDeck]_vars

C18_FaceUpIffListed ==
  gameState = "playing" =>
    FaceUpUnmatched(cards) = {flippedCards[k] : k \in DOMAIN flippedCards}

SpecFair == Spec /\ WF_vars(Tick) /\ WF_vars(MismatchTimeout)

\* C20: when the interval and the scheduled callbacks keep firing, a session
\* that is playing eventually is not playing, and input that is locked after a
\* mismatch is eventually unlocked.
C20_SessionsAndMismatchesEnd ==
  /\ (gameState = "playing") ~> (gameState # "playing")
  /\ isChecking ~> ~isChecking

\* a session was ended by the timer while a mismatch was resolving, and the
\* callback then ended the resolving
C20_Witness ==
  /\ gameState = "lost"
  /\ timeLeft = 0
  /\ lastOp.op = "timeout"
  /\ ~isChecking
  /\ timeouts = <<>>

====
